---------------------------- MODULE Spec2Model ----------------------------
(***************************************************************************)
(* Configuration loading of ts-dns (cmd/conf/conf.go): NewHandler and the  *)
(* generators it calls (GenCallers, GenIPSet, GenCache, GenHostsReader).   *)
(*                                                                         *)
(* Conventions.  A Go string that the code slices, splits or matches is a  *)
(* sequence of one-character strings; a Go string that is only compared or *)
(* copied is a TLA+ string.  A Go pointer or interface is a record with an *)
(* isNil field.  An error value is a string, "" being nil.  Durations are  *)
(* counted in seconds (the code multiplies by time.Second).                *)
(***************************************************************************)
EXTENDS Integers, Sequences, FiniteSets, TLC

VARIABLES
    pc,         \* position of NewHandler; "done" once it has returned (handler, err),
                \* "panic" once it has panicked
    config,     \* var config Conf, as decoded from the file
    handler,    \* the named result handler
    err,        \* the named result err
    todo,       \* names of the groups of config the range loop has not visited yet
    created,    \* names of the address-sets ipset.New has created, in creation order
    loadFailed, \* indexes of HostsFiles whose NewReaderByFile failed
    cpc,        \* position of the GenCallers harness
    grp,        \* the Group section GenCallers is applied to
    callers,    \* the list GenCallers returned
    kpc,        \* position of the GenCache harness
    cacheFile,  \* the [cache] section as the file gives it
    cacheSec,   \* the Cache section GenCache is applied to, which it updates
    dnsCache    \* the cache GenCache returned

vars == <<pc, config, handler, err, todo, created, loadFailed,
          cpc, grp, callers, kpc, cacheFile, cacheSec, dnsCache>>

mainVars == <<pc, config, handler, err, todo, created, loadFailed>>
callerVars == <<cpc, grp, callers>>
cacheVars == <<kpc, cacheFile, cacheSec, dnsCache>>

-----------------------------------------------------------------------------
(* Bounds of the model *)

\* most upstream entries (DNS + DoT + DoH) of a section given to GenCallers
MaxEntries == 2
\* most hosts files a configuration lists
MaxFiles == 2
\* cache sizes and TTLs are drawn from -MaxSize..MaxSize and 0..MaxSize
MaxSize == 3

-----------------------------------------------------------------------------
(* Go's strings package, on sequences of characters *)

HasSuffix(s, suffix) ==
    /\ Len(s) >= Len(suffix)
    /\ SubSeq(s, Len(s) - Len(suffix) + 1, Len(s)) = suffix

HasPrefix(s, prefix) ==
    /\ Len(s) >= Len(prefix)
    /\ SubSeq(s, 1, Len(prefix)) = prefix

\* strings.Contains(s, c) for a one-character c
Contains(s, c) == \E i \in 1..Len(s) : s[i] = c

\* index of the first c in s, 0 when there is none
Index(s, c) ==
    IF Contains(s, c)
    THEN CHOOSE i \in 1..Len(s) : s[i] = c /\ \A j \in 1..(i - 1) : s[j] # c
    ELSE 0

\* strings.Split(s, c) for a one-character c: always at least one piece
RECURSIVE Split(_, _)
Split(s, c) ==
    IF ~Contains(s, c)
    THEN <<s>>
    ELSE <<SubSeq(s, 1, Index(s, c) - 1)>>
         \o Split(SubSeq(s, Index(s, c) + 1, Len(s)), c)

TcpSuffix == <<"/", "t", "c", "p">>
Port53 == <<":", "5", "3">>
Port853 == <<":", "8", "5", "3">>
DohPrefix == <<"h", "t", "t", "p", "s", ":", "/", "/">>
DohSuffix == <<"/", "d", "n", "s", "-", "q", "u", "e", "r", "y">>

\* regexp ^https://.+/dns-query$ : the prefix, one or more characters other
\* than a newline, the suffix, and nothing else
DohRegMatch(s) ==
    /\ Len(s) >= Len(DohPrefix) + 1 + Len(DohSuffix)
    /\ HasPrefix(s, DohPrefix)
    /\ HasSuffix(s, DohSuffix)
    /\ \A i \in (Len(DohPrefix) + 1)..(Len(s) - Len(DohSuffix)) : s[i] # "\n"

-----------------------------------------------------------------------------
(* Group.GenCallers *)

NilDialer == [isNil |-> TRUE, addr |-> ""]

\* proxy.SOCKS5("tcp", addr, nil, proxy.Direct)
SOCKS5(addr) == [isNil |-> FALSE, addr |-> addr]

GroupDialer(conf) == IF conf.Socks5 # "" THEN SOCKS5(conf.Socks5) ELSE NilDialer

NewDNSCaller(addr, network, dialer) ==
    [kind |-> "dns", addr |-> addr, network |-> network,
     serverName |-> <<>>, dialer |-> dialer]

NewDoTCaller(addr, serverName, dialer) ==
    [kind |-> "dot", addr |-> addr, network |-> "tcp",
     serverName |-> serverName, dialer |-> dialer]

NewDoHCaller(url, dialer) ==
    [kind |-> "doh", addr |-> url, network |-> "https",
     serverName |-> <<>>, dialer |-> dialer]

\* lines 54-57: the network and the address of one dns entry
DNSNetwork(entry) == IF HasSuffix(entry, TcpSuffix) THEN "tcp" ELSE "udp"

DNSAddr(entry) ==
    IF HasSuffix(entry, TcpSuffix) THEN SubSeq(entry, 1, Len(entry) - 4) ELSE entry

\* lines 59-61 and 73-75: the default port
WithPort(addr, port) == IF ~Contains(addr, ":") THEN addr \o port ELSE addr

\* one iteration of the dns loop: the callers it appends
DNSCallers(entry, dialer) ==
    IF DNSAddr(entry) # <<>>
    THEN <<NewDNSCaller(WithPort(DNSAddr(entry), Port53), DNSNetwork(entry), dialer)>>
    ELSE <<>>

\* DoTCallers with the test of line 67 written len(arr) < 2
DoTCallersLoose(entry, dialer) ==
    LET arr == Split(entry, "@") IN
    IF Len(arr) < 2
    THEN <<>>
    ELSE IF arr[1] # <<>> /\ arr[2] # <<>>
         THEN <<NewDoTCaller(WithPort(arr[1], Port853), arr[2], dialer)>>
         ELSE <<>>

\* one iteration of the dot loop
DoTCallers(entry, dialer) ==
    LET arr == Split(entry, "@") IN
    IF Len(arr) # 2
    THEN <<>>
    ELSE IF arr[1] # <<>> /\ arr[2] # <<>>
         THEN <<NewDoTCaller(WithPort(arr[1], Port853), arr[2], dialer)>>
         ELSE <<>>

\* DoHCallers with the dialer left out of line 82
DoHCallersDirect(entry, dialer) ==
    IF DohRegMatch(entry) THEN <<NewDoHCaller(entry, NilDialer)>> ELSE <<>>

\* one iteration of the doh loop
DoHCallers(entry, dialer) ==
    IF DohRegMatch(entry) THEN <<NewDoHCaller(entry, dialer)>> ELSE <<>>

RECURSIVE DNSLoop(_, _)
DNSLoop(entries, dialer) ==
    IF entries = <<>> THEN <<>>
    ELSE DNSCallers(Head(entries), dialer) \o DNSLoop(Tail(entries), dialer)

RECURSIVE DoTLoop(_, _)
DoTLoop(entries, dialer) ==
    IF entries = <<>> THEN <<>>
    ELSE DoTCallers(Head(entries), dialer) \o DoTLoop(Tail(entries), dialer)

RECURSIVE DoHLoop(_, _)
DoHLoop(entries, dialer) ==
    IF entries = <<>> THEN <<>>
    ELSE DoHCallers(Head(entries), dialer) \o DoHLoop(Tail(entries), dialer)

GenCallers(conf) ==
    DNSLoop(conf.DNS, GroupDialer(conf))
    \o DoTLoop(conf.DoT, GroupDialer(conf))
    \o DoHLoop(conf.DoH, GroupDialer(conf))

-----------------------------------------------------------------------------
(* Group.GenIPSet *)

NilIPSet == [isNil |-> TRUE, name |-> "", timeout |-> 0]

\* the handle ipset.New returns when it succeeds
NewIPSet(name, timeout) == [isNil |-> FALSE, name |-> name, timeout |-> timeout]

\* CallsIPSetNew without the test of line 34
CallsIPSetNewAlways(conf) == TRUE

\* line 34: does GenIPSet call ipset.New
CallsIPSetNew(conf) == conf.IPSet # ""

\* GenIPSet: newOk is the outcome of ipset.New, read only when it is called
GenIPSet(conf, newOk) ==
    IF CallsIPSetNew(conf)
    THEN IF ~newOk
         THEN [ipSet |-> NilIPSet, err |-> "ipset"]
         ELSE [ipSet |-> NewIPSet(conf.IPSet, conf.IPSetTTL), err |-> ""]
    ELSE [ipSet |-> NilIPSet, err |-> ""]

-----------------------------------------------------------------------------
(* Conf.GenCache *)

DefaultSize == 4096
DefaultMinTTL == 60
DefaultMaxTTL == 86400

NilCacheSec == [isNil |-> TRUE, Size |-> 0, MinTTL |-> 0, MaxTTL |-> 0]

NilDNSCache == [isNil |-> TRUE, size |-> 0, minTTL |-> 0, maxTTL |-> 0]

\* cache.NewDNSCache(size, minTTL, maxTTL)
NewDNSCache(size, minTTL, maxTTL) ==
    [isNil |-> FALSE, size |-> size, minTTL |-> minTTL, maxTTL |-> maxTTL]

\* CacheDefaults with the test of line 121 written conf.Cache.Size <= 0
CacheDefaultsNonPositive(sec) ==
    [sec EXCEPT !.Size = IF @ <= 0 THEN DefaultSize ELSE @,
                !.MinTTL = IF @ = 0 THEN DefaultMinTTL ELSE @,
                !.MaxTTL = IF @ = 0 THEN DefaultMaxTTL ELSE @]

\* lines 121-129: the section after GenCache has filled in the defaults
CacheDefaults(sec) ==
    [sec EXCEPT !.Size = IF @ = 0 THEN DefaultSize ELSE @,
                !.MinTTL = IF @ = 0 THEN DefaultMinTTL ELSE @,
                !.MaxTTL = IF @ = 0 THEN DefaultMaxTTL ELSE @]

\* lines 130-132, for a section that is not nil
GenCache(sec) ==
    NewDNSCache(CacheDefaults(sec).Size, CacheDefaults(sec).MinTTL,
                CacheDefaults(sec).MaxTTL)

-----------------------------------------------------------------------------
(* Conf.GenHostsReader *)

\* hosts.NewReaderByText(text): the text is kept as its list of lines
NewReaderByText(lines) ==
    [kind |-> "text", text |-> lines, file |-> "", reloadTick |-> 0]

\* hosts.NewReaderByFile(filename, reloadTick) when it succeeds
NewReaderByFile(filename, reloadTick) ==
    [kind |-> "file", text |-> <<>>, file |-> filename, reloadTick |-> reloadTick]

\* lines 139-141: one line, ip+" "+hostname, per entry of the Hosts map, in the
\* order the range statement happens to visit the keys
HostsLines(hosts, order) ==
    [i \in 1..Len(order) |-> <<hosts[order[i]], " ", order[i]>>]

\* lines 142-145
TextReaders(lines) ==
    IF Len(lines) > 0 THEN <<NewReaderByText(lines)>> ELSE <<>>

\* FileReaders with a failure ending the loop of line 147
RECURSIVE FileReadersStopAtFailure(_, _, _)
FileReadersStopAtFailure(files, i, failed) ==
    IF i > Len(files) \/ i \in failed THEN <<>>
    ELSE <<NewReaderByFile(files[i], 0)>> \o FileReadersStopAtFailure(files, i + 1, failed)

\* lines 147-153, from the i-th file on; failed holds the indexes of the files
\* NewReaderByFile cannot read
RECURSIVE FileReaders(_, _, _)
FileReaders(files, i, failed) ==
    IF i > Len(files) THEN <<>>
    ELSE (IF i \in failed THEN <<>> ELSE <<NewReaderByFile(files[i], 0)>>)
         \o FileReaders(files, i + 1, failed)

GenHostsReader(conf, order, failed) ==
    TextReaders(HostsLines(conf.Hosts, order)) \o FileReaders(conf.HostsFiles, 1, failed)

\* the orders in which a range statement can visit the keys of m
KeyOrders(m) ==
    {o \in [1..Cardinality(DOMAIN m) -> DOMAIN m] :
        \A i, j \in DOMAIN o : i # j => o[i] # o[j]}

-----------------------------------------------------------------------------
(* Conf.SetDefault *)

SetDefault(conf) ==
    [conf EXCEPT !.Listen = IF @ = "" THEN ":53" ELSE @,
                 !.GFWList = IF @ = "" THEN "gfwlist.txt" ELSE @,
                 !.CNIP = IF @ = "" THEN "cnip.txt" ELSE @]

-----------------------------------------------------------------------------
(* The configurations a file can decode to *)

SeqsUpTo(S, n) == UNION {[1..k -> S] : k \in 0..n}

GroupNames == {"clean", "dirty", "work"}

\* rules = [...] of each section, as in ts-dns-full.toml
RulesOf(name) ==
    CASE name = "clean" -> <<"qq.com", ".baidu.com", "*.taobao.com">>
      [] name = "work" -> <<"company.com">>
      [] OTHER -> <<>>

\* upstream entries
Host == <<"9">>
HostPort == <<"9", ":", "5">>
HostTcp == <<"9", "/", "t", "c", "p">>
HostPortTcp == <<"9", ":", "5", "/", "t", "c", "p">>
OnlyTcp == <<"/", "t", "c", "p">>
IPv6 == <<":", ":", "1">>
Empty == <<>>

DotFull == <<"9", ":", "8", "@", "n">>
DotNoPort == <<"9", "@", "n">>
DotNoAddr == <<"@", "n">>
DotNoName == <<"9", "@">>
DotTwoAt == <<"9", "@", "n", "@", "n">>
DotIPv6 == <<":", ":", "1", "@", "n">>

DohFull == DohPrefix \o <<"h">> \o DohSuffix
DohPath == DohPrefix \o <<"h", "/", "p">> \o DohSuffix
DohNoHost == DohPrefix \o DohSuffix
DohHttp == <<"h", "t", "t", "p", ":", "/", "/", "h">> \o DohSuffix
DohTrailing == DohFull \o <<"/">>
DohNewline == DohPrefix \o <<"h", "\n">> \o DohSuffix

DNSEntries == {Empty, OnlyTcp, Host, HostTcp, HostPort, HostPortTcp, IPv6}
DoTEntries == {Empty, Host, DotFull, DotNoPort, DotNoAddr, DotNoName, DotTwoAt, DotIPv6}
DoHEntries == {Empty, DohFull, DohPath, DohNoHost, DohHttp, DohTrailing, DohNewline}

Group(socks5, ipSet, dns, dot, doh, concurrent, rules) ==
    [Socks5 |-> socks5, IPSet |-> ipSet, IPSetTTL |-> IF ipSet = "" THEN 0 ELSE 86400,
     DNS |-> dns, DoT |-> dot, DoH |-> doh, Concurrent |-> concurrent, Rules |-> rules]

\* the sections GenCallers is examined on: at most MaxEntries entries in all
CallerSections ==
    UNION {{Group(s, "", dns, dot, doh, FALSE, <<>>) :
                s \in {"", "127.0.0.1:1080"},
                dns \in [1..n[1] -> DNSEntries],
                dot \in [1..n[2] -> DoTEntries],
                doh \in [1..n[3] -> DoHEntries]} :
           n \in {m \in [1..3 -> 0..MaxEntries] : m[1] + m[2] + m[3] <= MaxEntries}}

\* the sections a group of a configuration file is drawn from
FileSections(name) ==
    {Group("", ipSet, dns, <<>>, <<>>, concurrent, RulesOf(name)) :
        ipSet \in {"", "blocked"},
        dns \in {<<>>, <<OnlyTcp>>, <<Host>>},
        concurrent \in BOOLEAN}

\* [groups] of ts-dns-full.toml
FullGroups ==
    [name \in GroupNames |->
        CASE name = "clean" ->
               Group("", "", <<HostTcp, HostPort, Host>>, <<>>, <<>>, TRUE, RulesOf(name))
          [] name = "dirty" ->
               Group("127.0.0.1:1080", "blocked", <<Host, Host>>, <<DotFull>>,
                     <<DohFull>>, FALSE, RulesOf(name))
          [] OTHER ->
               Group("", "", <<Host>>, <<>>, <<>>, FALSE, RulesOf(name))]

Restrict(f, S) == [x \in S |-> f[x]]

HostIPs == [h \in {"example.com", "cloudflare-dns.com"} |->
               IF h = "example.com" THEN "8.8.8.8" ELSE "1.0.0.1"]

FileNames == {"/etc/hosts", "hosts.local"}

\* [cache] of ts-dns-full.toml
FullCacheSec == [isNil |-> FALSE, Size |-> 4096, MinTTL |-> 60, MaxTTL |-> 86400]

Conf(listen, gfwList, cnip, hostsFiles, hosts, cache, groups) ==
    [Listen |-> listen, GFWList |-> gfwList, CNIP |-> cnip, HostsFiles |-> hostsFiles,
     Hosts |-> hosts, Cache |-> cache, Groups |-> groups]

\* var config Conf
ZeroConf == Conf("", "", "", <<>>, Restrict(HostIPs, {}), NilCacheSec,
                 Restrict(FullGroups, {}))

\* configurations that vary the groups: any subset of the names, any section each
GroupConfs ==
    {Conf("", "", "", <<>>, Restrict(HostIPs, {}), c, g) :
        c \in {NilCacheSec, FullCacheSec},
        g \in UNION {{f \in [S -> UNION {FileSections(n) : n \in S}] :
                          \A n \in S : f[n] \in FileSections(n)} :
                     S \in SUBSET GroupNames}}

\* configurations that vary the global settings
GlobalConfs ==
    {Conf(l, w, "", f, Restrict(HostIPs, H), c, Restrict(FullGroups, S)) :
        l \in {"", ":5353"}, w \in {"", "gfw.txt"},
        f \in SeqsUpTo(FileNames, MaxFiles),
        H \in SUBSET DOMAIN HostIPs,
        c \in {NilCacheSec, FullCacheSec},
        S \in {GroupNames, {"clean", "dirty"}, {"clean", "work"}}}

Confs == GroupConfs \cup GlobalConfs

-----------------------------------------------------------------------------
(* NewHandler *)

NilMatcher == [isNil |-> TRUE, file |-> "", rules |-> <<>>]

\* matcher.NewABPByFile(filename, true) and cache.NewRamSetByFile(filename),
\* when the file can be read
NewABPByFile(filename) == [isNil |-> FALSE, file |-> filename, rules |-> <<>>]
NewRamSetByFile(filename) == [isNil |-> FALSE, file |-> filename]
NilRamSet == [isNil |-> TRUE, file |-> ""]

\* matcher.NewABPByText(strings.Join(rules, "\n"))
NewABPByText(rules) == [isNil |-> FALSE, file |-> "", rules |-> rules]

NoGroups == [name \in {} |-> 0]

NilHandler ==
    [isNil |-> TRUE, Listen |-> "", GFWMatcher |-> NilMatcher, CNIP |-> NilRamSet,
     HostsReaders |-> <<>>, Cache |-> NilDNSCache, Groups |-> NoGroups]

\* lines 166-167
InitHandler(conf) == [NilHandler EXCEPT !.isNil = FALSE, !.Listen = conf.Listen]

\* HandlerGroup with Concurrent left out of line 182
HandlerGroupSequential(group) ==
    [Callers |-> GenCallers(group), Concurrent |-> FALSE,
     Matcher |-> NewABPByText(group.Rules), IPSet |-> NilIPSet]

\* line 182 and 187: the handler group of one section, before its IPSet is set
HandlerGroup(group) ==
    [Callers |-> GenCallers(group), Concurrent |-> group.Concurrent,
     Matcher |-> NewABPByText(group.Rules), IPSet |-> NilIPSet]

\* line 193
PutGroup(groups, name, hg) ==
    [n \in DOMAIN groups \cup {name} |-> IF n = name THEN hg ELSE groups[n]]

\* line 196, evaluated left to right with short-circuit: "error" when the
\* condition is true, "ok" when it is false, "panic" when evaluating it
\* dereferences the nil *inbound.Group a missing key yields
Validate(groups) ==
    IF Cardinality(DOMAIN groups) <= 0 THEN "error"
    ELSE IF "clean" \notin DOMAIN groups THEN "panic"
    ELSE IF Len(groups["clean"].Callers) <= 0 THEN "error"
    ELSE IF "dirty" \notin DOMAIN groups THEN "panic"
    ELSE IF Len(groups["dirty"].Callers) <= 0 THEN "error"
    ELSE "ok"

\* return nil, err
ReturnError(e) ==
    /\ handler' = NilHandler
    /\ err' = e
    /\ pc' = "done"

\* lines 160-163: the file cannot be decoded
DecodeFails ==
    /\ pc = "decode"
    /\ ReturnError("decode")
    /\ UNCHANGED <<config, todo, created, loadFailed, callerVars, cacheVars>>

\* lines 160-167: the file decodes to conf
DecodeOk ==
    /\ pc = "decode"
    /\ \E conf \in Confs :
        /\ config' = SetDefault(conf)
        /\ handler' = InitHandler(SetDefault(conf))
        /\ todo' = DOMAIN conf.Groups
    /\ err' = ""
    /\ pc' = "gfwlist"
    /\ UNCHANGED <<created, loadFailed, callerVars, cacheVars>>

\* lines 169-172
GFWListOk ==
    /\ pc = "gfwlist"
    /\ handler' = [handler EXCEPT !.GFWMatcher = NewABPByFile(config.GFWList)]
    /\ err' = ""
    /\ pc' = "cnip"
    /\ UNCHANGED <<config, todo, created, loadFailed, callerVars, cacheVars>>

GFWListFails ==
    /\ pc = "gfwlist"
    /\ ReturnError("gfwlist")
    /\ UNCHANGED <<config, todo, created, loadFailed, callerVars, cacheVars>>

\* lines 174-177
CNIPOk ==
    /\ pc = "cnip"
    /\ handler' = [handler EXCEPT !.CNIP = NewRamSetByFile(config.CNIP)]
    /\ err' = ""
    /\ pc' = "hosts"
    /\ UNCHANGED <<config, todo, created, loadFailed, callerVars, cacheVars>>

CNIPFails ==
    /\ pc = "cnip"
    /\ ReturnError("cnip")
    /\ UNCHANGED <<config, todo, created, loadFailed, callerVars, cacheVars>>

\* line 178
ReadHosts ==
    /\ pc = "hosts"
    /\ \E order \in KeyOrders(config.Hosts), failed \in SUBSET DOMAIN config.HostsFiles :
        /\ handler' = [handler EXCEPT
                          !.HostsReaders = GenHostsReader(config, order, failed)]
        /\ loadFailed' = failed
    /\ pc' = "cache"
    /\ UNCHANGED <<config, err, todo, created, callerVars, cacheVars>>

\* line 179, with a [cache] section
MakeCache ==
    /\ pc = "cache"
    /\ ~config.Cache.isNil
    /\ handler' = [handler EXCEPT !.Cache = GenCache(config.Cache)]
    /\ config' = [config EXCEPT !.Cache = CacheDefaults(config.Cache)]
    /\ pc' = "groups"
    /\ UNCHANGED <<err, todo, created, loadFailed, callerVars, cacheVars>>

\* line 179 without one: conf.Cache is nil and line 121 dereferences it
MakeCachePanics ==
    /\ pc = "cache"
    /\ config.Cache.isNil
    /\ pc' = "panic"
    /\ UNCHANGED <<config, handler, err, todo, created, loadFailed>>
    /\ UNCHANGED <<callerVars, cacheVars>>

\* lines 181-194: one iteration of the loop, for whichever group comes next
\* in the map's iteration order; newOk is the outcome of ipset.New
RangeGroups ==
    /\ pc = "groups"
    /\ \E name \in todo, newOk \in BOOLEAN :
        LET group == config.Groups[name]
            ipSet == GenIPSet(group, newOk)
        IN  /\ created' = IF CallsIPSetNew(group) /\ newOk
                          THEN Append(created, group.IPSet) ELSE created
            /\ IF ipSet.err # ""
               THEN /\ ReturnError(ipSet.err)
                    /\ UNCHANGED todo
               ELSE /\ err' = ipSet.err
                    /\ handler' = [handler EXCEPT !.Groups =
                                      PutGroup(@, name, [HandlerGroup(group) EXCEPT
                                                            !.IPSet = ipSet.ipSet])]
                    /\ todo' = todo \ {name}
                    /\ UNCHANGED pc
    /\ UNCHANGED <<config, loadFailed, callerVars, cacheVars>>

\* lines 196-199: the loop is over and the condition holds
ValidateFails ==
    /\ pc = "groups"
    /\ todo = {}
    /\ Validate(handler.Groups) = "error"
    /\ ReturnError("empty")
    /\ UNCHANGED <<config, todo, created, loadFailed, callerVars, cacheVars>>

\* line 196: the loop is over and the condition reads a group that is missing
ValidatePanics ==
    /\ pc = "groups"
    /\ todo = {}
    /\ Validate(handler.Groups) = "panic"
    /\ pc' = "panic"
    /\ UNCHANGED <<config, handler, err, todo, created, loadFailed>>
    /\ UNCHANGED <<callerVars, cacheVars>>

\* line 200
ReturnHandler ==
    /\ pc = "groups"
    /\ todo = {}
    /\ Validate(handler.Groups) = "ok"
    /\ pc' = "done"
    /\ UNCHANGED <<config, handler, err, todo, created, loadFailed>>
    /\ UNCHANGED <<callerVars, cacheVars>>

NewHandler ==
    \/ DecodeFails \/ DecodeOk
    \/ GFWListOk \/ GFWListFails
    \/ CNIPOk \/ CNIPFails
    \/ ReadHosts
    \/ MakeCache \/ MakeCachePanics
    \/ RangeGroups
    \/ ValidateFails \/ ValidatePanics \/ ReturnHandler

-----------------------------------------------------------------------------
(* The harnesses that apply GenCallers and GenCache to one section *)

CallGenCallers ==
    /\ cpc = "start"
    /\ callers' = GenCallers(grp)
    /\ cpc' = "done"
    /\ UNCHANGED <<grp, mainVars, cacheVars>>

CacheSections ==
    [isNil : {FALSE}, Size : (0 - MaxSize)..MaxSize, MinTTL : 0..MaxSize,
     MaxTTL : 0..MaxSize]

\* GenCache fills the defaults into the section and returns the cache
CallGenCache ==
    /\ kpc = "start"
    /\ dnsCache' = GenCache(cacheSec)
    /\ cacheSec' = CacheDefaults(cacheSec)
    /\ kpc' = "done"
    /\ UNCHANGED <<cacheFile, mainVars, callerVars>>

-----------------------------------------------------------------------------
(* Specifications *)

MainIdle ==
    /\ pc = "decode" /\ config = ZeroConf /\ handler = NilHandler /\ err = ""
    /\ todo = {} /\ created = <<>> /\ loadFailed = {}

CallersIdle == cpc = "idle" /\ grp = Group("", "", <<>>, <<>>, <<>>, FALSE, <<>>)
                            /\ callers = <<>>

CacheIdle ==
    /\ kpc = "idle" /\ cacheFile = NilCacheSec /\ cacheSec = NilCacheSec
    /\ dnsCache = NilDNSCache

\* NewHandler(filename)
Init == MainIdle /\ CallersIdle /\ CacheIdle

Next == NewHandler

Spec == Init /\ [][Next]_vars

\* GenCallers on every section of CallerSections
InitCallers ==
    /\ MainIdle /\ CacheIdle
    /\ cpc = "start" /\ grp \in CallerSections /\ callers = <<>>

NextCallers == CallGenCallers

SpecCallers == InitCallers /\ [][NextCallers]_vars

\* GenCache on every section of CacheSections
InitCache ==
    /\ MainIdle /\ CallersIdle
    /\ kpc = "start" /\ cacheFile \in CacheSections /\ cacheSec = cacheFile
    /\ dnsCache = NilDNSCache

NextCache == CallGenCache

SpecCache == InitCache /\ [][NextCache]_vars

-----------------------------------------------------------------------------
(* Properties of NewHandler *)

Terminated == pc \in {"done", "panic"}

\* NewHandler returned (nil, err) with err non-nil
ReturnedError == pc = "done" /\ handler.isNil /\ err # ""

\* NewHandler returned (handler, nil) with handler non-nil
ReturnedHandler == pc = "done" /\ ~handler.isNil /\ err = ""

HasGroup(name) == name \in DOMAIN config.Groups

\* the section of group name yields no caller
ZeroCallers(name) == Len(GenCallers(config.Groups[name])) = 0

\* C1: when the configuration has both the clean and the dirty group and one
\* of them yields zero callers, NewHandler ends by returning a non-nil error
\* and a nil Handler.
C1_ZeroCallersRejected ==
    (/\ Terminated
     /\ HasGroup("clean") /\ HasGroup("dirty")
     /\ ZeroCallers("clean") \/ ZeroCallers("dirty"))
    => ReturnedError

\* C2: when the configuration lacks the clean group or the dirty group,
\* NewHandler ends by returning an error and a nil Handler and does not crash.
\* Stated for the configurations that have a [cache] section, which are the
\* ones whose run reaches the validation of line 196.
C2_MissingGroupRejected ==
    (/\ Terminated
     /\ ~config.Cache.isNil
     /\ ~HasGroup("clean") \/ ~HasGroup("dirty"))
    => ReturnedError

\* C4: every run of NewHandler ends by returning exactly one of (non-nil
\* Handler, nil error) and (nil Handler, non-nil error); a failure to decode
\* the file, to load the deny-list or the CN-IP list, or to create a group's
\* address-set ends it with that error and a nil Handler.
C4_ReturnsHandlerOrError ==
    Terminated => (ReturnedHandler \/ ReturnedError)

\* indexes of the hosts files that were read, in configured order
C8_Loaded ==
    SelectSeq([i \in 1..Len(config.HostsFiles) |-> i], LAMBDA i : i \notin loadFailed)

\* has GenHostsReader run in this call
C8_HostsRead == pc \in {"cache", "groups", "panic"} \/ ReturnedHandler

\* C8: whichever hosts files fail to load, handler.HostsReaders holds one
\* reader for every file that loads, in configured order and with reload
\* interval zero, preceded by one inline reader iff the [hosts] section has a
\* mapping; reading the hosts never ends NewHandler, so the readers and the
\* result are those of a configuration that lists only the files that load.
C8_HostsFailuresSwallowed ==
    /\ C8_HostsRead =>
        LET readers == handler.HostsReaders
            inline == IF DOMAIN config.Hosts # {} THEN 1 ELSE 0
        IN  /\ Len(readers) = inline + Len(C8_Loaded)
            /\ inline = 1 =>
                /\ readers[1].kind = "text"
                /\ {readers[1].text[i] : i \in DOMAIN readers[1].text}
                     = {<<config.Hosts[h], " ", h>> : h \in DOMAIN config.Hosts}
                /\ Len(readers[1].text) = Cardinality(DOMAIN config.Hosts)
            /\ \A j \in 1..Len(C8_Loaded) :
                /\ readers[inline + j].kind = "file"
                /\ readers[inline + j].file = config.HostsFiles[C8_Loaded[j]]
                /\ readers[inline + j].reloadTick = 0
    /\ pc = "done" => err \in {"", "decode", "gfwlist", "cnip", "ipset", "empty"}
    /\ pc = "hosts" => ENABLED ReadHosts

\* C8 witness: NewHandler succeeded although a hosts file failed to load, and
\* the inline reader and the other file's reader are there
C8_Witness ==
    /\ ReturnedHandler
    /\ Len(config.HostsFiles) = 2 /\ Cardinality(loadFailed) = 1
    /\ Len(handler.HostsReaders) = 2

\* C9: on success the handler has exactly the configured groups, and each
\* handler group has the callers GenCallers gives for its own section and is
\* concurrent iff its own section says so.
C9_GroupsImageOfConfig ==
    ReturnedHandler =>
        /\ DOMAIN handler.Groups = DOMAIN config.Groups
        /\ \A name \in DOMAIN config.Groups :
            /\ handler.Groups[name].Callers = GenCallers(config.Groups[name])
            /\ handler.Groups[name].Concurrent = config.Groups[name].Concurrent

\* C9 witness: a successful load of three groups, some concurrent, some not
C9_Witness ==
    /\ ReturnedHandler
    /\ DOMAIN handler.Groups = GroupNames
    /\ \E a, b \in GroupNames :
        handler.Groups[a].Concurrent /\ ~handler.Groups[b].Concurrent

\* the groups the loop has finished with
Visited == DOMAIN config.Groups \ todo

\* C10 as claimed: whenever NewHandler returns an error, no address-set has
\* been created by the call.
C10_AllOrNothing == ReturnedError => created = <<>>

\* C10 as amended: a set is created exactly for the groups with a non-empty
\* set name that the loop has finished with, once each, whatever happens
\* afterwards (an error return or a crash leaves them created); on success the
\* loop has finished with every group.
C10_SetsOfVisitedGroups ==
    /\ \A i \in DOMAIN created :
        /\ created[i] # ""
        /\ \E name \in Visited : config.Groups[name].IPSet = created[i]
    /\ Len(created) = Cardinality({name \in Visited : config.Groups[name].IPSet # ""})
    /\ ReturnedHandler => todo = {}

\* C10 witness: NewHandler returned an error after it had created a set
C10_Witness == ReturnedError /\ created # <<>>

-----------------------------------------------------------------------------
(* Properties of GenCallers *)

RangeOf(s) == {s[i] : i \in DOMAIN s}

\* net.SplitHostPort: the address ends in ":port", the host before it being
\* free of colons or enclosed in brackets
CarriesPort(addr) ==
    \E i \in 1..Len(addr) :
        /\ addr[i] = ":"
        /\ \A j \in (i + 1)..Len(addr) : addr[j] # ":"
        /\ \/ \A j \in 1..(i - 1) : addr[j] # ":"
           \/ i > 2 /\ addr[1] = "[" /\ addr[i - 1] = "]"

\* the caller C5 describes for a dns entry whose address is not empty
C5_DNSCaller(entry) ==
    LET tcp == HasSuffix(entry, TcpSuffix)
        addr == IF tcp THEN SubSeq(entry, 1, Len(entry) - Len(TcpSuffix)) ELSE entry
    IN  [kind |-> "dns",
         network |-> IF tcp THEN "tcp" ELSE "udp",
         addr |-> IF CarriesPort(addr) THEN addr ELSE addr \o Port53]

\* the address C5 describes for a dot entry address@serverName
C5_DoTAddr(entry) ==
    LET addr == SubSeq(entry, 1, Index(entry, "@") - 1)
    IN  IF CarriesPort(addr) THEN addr ELSE addr \o Port853

\* C5: a dns entry ending in "/tcp" becomes a TCP caller on the address
\* without the suffix and any other entry a UDP caller; an address without a
\* port gets port 53 (853 in a dot entry) and an address that carries a port
\* is left unchanged.  Stated for the entries that yield a caller.
C5_TransportAndDefaultPort ==
    cpc = "done" =>
        /\ \A entry \in RangeOf(grp.DNS) :
            (entry # <<>> /\ entry # TcpSuffix) =>
                \E i \in DOMAIN callers :
                    /\ callers[i].kind = C5_DNSCaller(entry).kind
                    /\ callers[i].network = C5_DNSCaller(entry).network
                    /\ callers[i].addr = C5_DNSCaller(entry).addr
        /\ \A entry \in RangeOf(grp.DoT) :
            (/\ Cardinality({k \in DOMAIN entry : entry[k] = "@"}) = 1
             /\ entry[1] # "@" /\ entry[Len(entry)] # "@") =>
                \E i \in DOMAIN callers :
                    /\ callers[i].kind = "dot"
                    /\ callers[i].addr = C5_DoTAddr(entry)

C6_Tag(entries, kind) ==
    [i \in DOMAIN entries |-> [kind |-> kind, entry |-> entries[i]]]

C6_Count(s, c) == Cardinality({i \in DOMAIN s : s[i] = c})

C6_WellFormedDNS(e) == e # <<>> /\ e # TcpSuffix

C6_WellFormedDoT(e) ==
    /\ C6_Count(e, "@") = 1
    /\ e[1] # "@"
    /\ e[Len(e)] # "@"

\* https://<host>/dns-query with a non-empty <host> on one line
C6_WellFormedDoH(e) ==
    \E n \in 1..Len(e) :
        /\ Len(e) = Len(DohPrefix) + n + Len(DohSuffix)
        /\ SubSeq(e, 1, Len(DohPrefix)) = DohPrefix
        /\ SubSeq(e, Len(DohPrefix) + n + 1, Len(e)) = DohSuffix
        /\ \A i \in (Len(DohPrefix) + 1)..(Len(DohPrefix) + n) : e[i] # "\n"

\* the well-formed entries of the section: dns, then dot, then doh
C6_Kept ==
    C6_Tag(SelectSeq(grp.DNS, C6_WellFormedDNS), "dns")
    \o C6_Tag(SelectSeq(grp.DoT, C6_WellFormedDoT), "dot")
    \o C6_Tag(SelectSeq(grp.DoH, C6_WellFormedDoH), "doh")

\* caller c is the caller of entry e: on its address, with or without the
\* default port added
C6_Corresponds(c, e) ==
    CASE c.kind = "dns" ->
           LET a == IF HasSuffix(e, TcpSuffix)
                    THEN SubSeq(e, 1, Len(e) - Len(TcpSuffix)) ELSE e
           IN  c.addr \in {a, a \o Port53}
      [] c.kind = "dot" ->
           \E k \in DOMAIN e :
               /\ e[k] = "@"
               /\ c.serverName = SubSeq(e, k + 1, Len(e))
               /\ c.addr \in {SubSeq(e, 1, k - 1), SubSeq(e, 1, k - 1) \o Port853}
      [] OTHER -> c.addr = e

\* C6: the callers are, in order, the callers of the well-formed dns entries,
\* then of the well-formed dot entries, then of the well-formed doh entries;
\* malformed entries produce nothing.
C6_CallersAreWellFormedEntries ==
    cpc = "done" =>
        /\ Len(callers) = Len(C6_Kept)
        /\ \A i \in DOMAIN callers :
            /\ callers[i].kind = C6_Kept[i].kind
            /\ C6_Corresponds(callers[i], C6_Kept[i].entry)

\* C6 witness: a section with a malformed and a well-formed entry of
\* different kinds, of which one caller came out
C6_Witness ==
    /\ cpc = "done"
    /\ Len(grp.DoT) = 1 /\ Len(grp.DoH) = 1
    /\ Len(callers) = 1

\* C7: with a SOCKS5 address every caller of the section carries the one
\* dialer made from it, and without one every caller has no dialer.
C7_OneDialerForAll ==
    cpc = "done" =>
        \A i \in DOMAIN callers :
            IF grp.Socks5 # ""
            THEN ~callers[i].dialer.isNil /\ callers[i].dialer.addr = grp.Socks5
            ELSE callers[i].dialer.isNil

\* C7 witness: a section with a proxy that yields callers of two kinds
C7_Witness ==
    /\ cpc = "done"
    /\ grp.Socks5 # ""
    /\ \E i, j \in DOMAIN callers : callers[i].kind = "dot" /\ callers[j].kind = "doh"

-----------------------------------------------------------------------------
(* Properties of GenCache *)

\* C3 as claimed: a configured size <= 0 gives a cache of non-positive size,
\* and a positive configured size a cache of that size.
C3_NonPositiveDisables ==
    kpc = "done" =>
        /\ cacheFile.Size <= 0 => dnsCache.size <= 0
        /\ cacheFile.Size > 0 => dnsCache.size = cacheFile.Size

\* C3 as amended: a negative configured size gives a cache of that negative
\* size (caching disabled), a configured size of zero gives the default size
\* 4096 (caching enabled), and a positive configured size a cache of that size.
C3_NegativeDisablesZeroDefaults ==
    kpc = "done" =>
        /\ cacheFile.Size < 0 => dnsCache.size = cacheFile.Size /\ dnsCache.size <= 0
        /\ cacheFile.Size = 0 => dnsCache.size = DefaultSize /\ dnsCache.size > 0
        /\ cacheFile.Size > 0 => dnsCache.size = cacheFile.Size

\* C3 witness: GenCache has built a cache from a negative configured size
C3_Witness == kpc = "done" /\ cacheFile.Size < 0 /\ dnsCache.size < 0

=============================================================================
